---- MODULE Spec2Model ----
(***************************************************************************)
(* Model of kiwi-mcp: the stdin/stdout JSON-RPC loop of src/main.rs and    *)
(* the plan_trip tool of crates/kiwi_mcp_tools/src/lib.rs (argument        *)
(* validation, query construction, the outbound HTTP call and the          *)
(* flight-result formatter).                                               *)
(*                                                                         *)
(* JSON values (serde_json::Value) are tagged records; an Option that is   *)
(* None is the value Absent.  Text is modelled as TLA+ strings; a String   *)
(* built from several "\n"-terminated pieces is a sequence of lines.  The  *)
(* arrow character of the route lines is written "->".                     *)
(***************************************************************************)
EXTENDS Integers, Sequences, FiniteSets, TLC

VARIABLES
    apiKey,          \* KIWI_API_KEY is set in the process environment
    overflowChecks,  \* the build checks integer overflow (debug profile)
    pc,              \* position of the single thread of control
    exitCode,        \* process exit status once it has ended, else -1
    nread,           \* number of input lines read so far
    line,            \* the line being processed
    stderrLog,       \* lines written to standard error
    dispatched,      \* requests handed to the dispatcher, in order
    pending,         \* the response being written, or Absent
    buf,             \* bytes written to stdout and not yet flushed
    out,             \* lines flushed to standard output
    args,            \* execute: the arguments (Option<Value>)
    toolResult,      \* execute: its Result
    httpSent,        \* requests handed to the HTTP client, in order
    response,        \* format_flight_results: the response body
    currency,        \* format_flight_results: the currency argument
    i,               \* format_flight_results: 1-based index of the next offer
    stops,           \* format_flight_results: `stops` of the last offer
    result           \* format_flight_results: the text built so far (lines)

vars == <<apiKey, overflowChecks, pc, exitCode, nread, line, stderrLog,
          dispatched, pending, buf, out, args, toolResult, httpSent,
          response, currency, i, stops, result>>

mainVars == <<exitCode, nread, line, stderrLog, dispatched, pending, buf, out>>
execVars == <<args, toolResult, httpSent>>
fmtVars == <<response, currency, i, stops, result>>
envVars == <<apiKey, overflowChecks>>

(***************************************************************************)
(* Bounds of the model.                                                    *)
(***************************************************************************)
MaxLines == 3     \* input lines per run
MaxOffers == 2    \* offers per response, for the multi-offer responses
MaxLegs == 3      \* legs per route
UsizeBits == 16   \* width the model gives usize (TLC integers are 32-bit)

(***************************************************************************)
(* serde_json::Value                                                       *)
(***************************************************************************)
Absent == [t |-> "absent"]
Null == [t |-> "null"]
Str(s) == [t |-> "str", s |-> s]
Num(n) == [t |-> "num", n |-> n]
Arr(a) == [t |-> "arr", a |-> a]
Obj(o) == [t |-> "obj", o |-> o]
EmptyObj == Obj([k \in {} |-> Absent])

\* Value::get(key): None unless the value is an object holding the key.
Get(v, k) == IF v.t = "obj" /\ k \in DOMAIN v.o THEN v.o[k] ELSE Absent

\* .and_then(|v| v.as_str()).unwrap_or(d)
StrOr(v, d) == IF v.t = "str" THEN v.s ELSE d
\* .and_then(|v| v.as_f64()).unwrap_or(d), .as_i64(): any number of the model
NumOr(v, d) == IF v.t = "num" THEN v.n ELSE d
\* .and_then(|v| v.as_u64()).unwrap_or(d): a non-negative integer
U64Or(v, d) == IF v.t = "num" /\ v.n >= 0 THEN v.n ELSE d

\* format!("{:.2}", x) for the integer-valued numbers of the model
Fixed2(n) == ToString(n) \o ".00"

\* i64 division and remainder truncate toward zero
TruncDiv(a, b) == IF a >= 0 THEN a \div b ELSE -((-a) \div b)
TruncRem(a, b) == a - b * TruncDiv(a, b)

RECURSIVE Join(_, _)
Join(ss, sep) ==
    IF ss = <<>> THEN ""
    ELSE IF Len(ss) = 1 THEN ss[1]
    ELSE ss[1] \o sep \o Join(Tail(ss), sep)

RECURSIVE FilterStr(_)
\* .iter().filter_map(|a| a.as_str()).collect()
FilterStr(vs) ==
    IF vs = <<>> THEN <<>>
    ELSE IF vs[1].t = "str" THEN <<vs[1].s>> \o FilterStr(Tail(vs))
    ELSE FilterStr(Tail(vs))

(***************************************************************************)
(* format_flight_results                                                   *)
(***************************************************************************)
\* chrono::DateTime::parse_from_rfc3339 followed by format("%d %b %Y, %H:%M"),
\* on the timestamps of the model; any other string does not parse.
Rfc3339 ==
    ("2024-03-05T14:30:00.000Z" :> "05 Mar 2024, 14:30") @@
    ("2024-03-05T18:45:00+01:00" :> "05 Mar 2024, 18:45")

FormatDate(s) == IF s \in DOMAIN Rfc3339 THEN Rfc3339[s] ELSE s

\* routes.len() - 1 on usize: the subtraction overflows for an empty route
RouteOverflows(flight) ==
    LET r == Get(flight, "route") IN r.t = "arr" /\ Len(r.a) = 0

\* `stops` when the subtraction does not abort (wrapping arithmetic)
Stops(flight) ==
    LET r == Get(flight, "route") IN
    IF r.t = "arr" THEN (Len(r.a) - 1) % (2 ^ UsizeBits) ELSE 0

StopDescription(n) ==
    IF n = 0 THEN "Direct flight"
    ELSE IF n = 1 THEN "1 stopover"
    ELSE ToString(n) \o " stopovers"

BaggageInfo(flight, cur) ==
    LET bags == Get(flight, "bags_price") IN
    IF bags # Absent
    THEN "First checked bag: " \o Fixed2(NumOr(Get(bags, "1"), 0)) \o " " \o cur
    ELSE "Baggage information not available"

Airlines(flight) ==
    LET a == Get(flight, "airlines") IN
    IF a.t = "arr" THEN Join(FilterStr(a.a), ", ") ELSE "Unknown"

\* the nine push_str lines of one offer; k is the 1-based index (i + 1)
OfferLines(flight, k, cur) ==
    LET duration == NumOr(Get(Get(flight, "duration"), "total"), 0) IN
    << "Flight " \o ToString(k) \o ": "
         \o StrOr(Get(flight, "cityFrom"), "Unknown")
         \o " (" \o StrOr(Get(flight, "flyFrom"), "???") \o ") -> "
         \o StrOr(Get(flight, "cityTo"), "Unknown")
         \o " (" \o StrOr(Get(flight, "flyTo"), "???") \o ")",
       "Price: " \o Fixed2(NumOr(Get(flight, "price"), 0)) \o " " \o cur,
       "Departure: " \o FormatDate(StrOr(Get(flight, "local_departure"), "Unknown")),
       "Arrival: " \o FormatDate(StrOr(Get(flight, "local_arrival"), "Unknown")),
       "Duration: " \o ToString(TruncDiv(duration, 60)) \o "h "
         \o ToString(TruncRem(duration, 60)) \o "m",
       "Airline(s): " \o Airlines(flight),
       "Stops: " \o StopDescription(Stops(flight)),
       BaggageInfo(flight, cur),
       "Booking link: " \o StrOr(Get(flight, "deep_link"), "Booking link not available") >>

LegLine(route, j) ==
    "  Leg " \o ToString(j) \o ": "
      \o StrOr(Get(route, "cityFrom"), "Unknown") \o " -> "
      \o StrOr(Get(route, "cityTo"), "Unknown")
      \o " (" \o StrOr(Get(route, "airline"), "Unknown") \o ")"

\* the "Route details" sub-list of an offer
RouteDetails(flight) ==
    LET r == Get(flight, "route") IN
    IF Stops(flight) > 0 /\ r.t = "arr"
    THEN <<"Route details:">> \o [j \in 1..Len(r.a) |-> LegLine(r.a[j], j)]
    ELSE <<>>

\* push_str("\n---\n\n") between offers: an empty line, the rule, an empty line
Separator(k, n) == IF k < n THEN <<"", "---", "">> ELSE <<>>

NoFlights == "No flights found matching your criteria."
UnexpectedFormat ==
    "Unable to retrieve flight information. The API response was in an unexpected format."
Header(n) == "Found " \o ToString(n) \o " flights matching your criteria:"

Ok(v) == [ok |-> TRUE, text |-> v]
Err(m) == [ok |-> FALSE, err |-> m]
NoResult == [ok |-> FALSE, err |-> ""]

\* entry of format_flight_results: the checks on "data" and the header
FormatStart ==
    /\ pc = "format"
    /\ LET data == Get(response, "data") IN
       IF data.t # "arr"
       THEN /\ toolResult' = Ok(<<UnexpectedFormat>>)
            /\ pc' = "toolReturn"
            /\ UNCHANGED <<i, result>>
       ELSE IF Len(data.a) = 0
       THEN /\ toolResult' = Ok(<<NoFlights>>)
            /\ pc' = "toolReturn"
            /\ UNCHANGED <<i, result>>
       ELSE /\ result' = <<Header(Len(data.a)), "">>
            /\ i' = 1
            /\ pc' = "formatLoop"
            /\ UNCHANGED toolResult
    /\ UNCHANGED <<envVars, mainVars, args, httpSent, response, currency, stops>>

\* one iteration of the loop over the offers
FormatOffer ==
    /\ pc = "formatLoop"
    /\ LET data == Get(response, "data").a
           flight == data[i]
       IN  IF RouteOverflows(flight) /\ overflowChecks
           THEN \* panic: attempt to subtract with overflow
                /\ pc' = "panicked"
                /\ exitCode' = 101
                /\ UNCHANGED <<i, stops, result, toolResult>>
           ELSE /\ stops' = Stops(flight)
                /\ result' = result \o OfferLines(flight, i, currency)
                               \o RouteDetails(flight)
                               \o Separator(i, Len(data))
                /\ i' = i + 1
                /\ IF i = Len(data)
                   THEN pc' = "toolReturn" /\ toolResult' = Ok(result')
                   ELSE pc' = "formatLoop" /\ UNCHANGED toolResult
                /\ UNCHANGED exitCode
    /\ UNCHANGED <<envVars, nread, line, stderrLog, dispatched, pending, buf,
                   out, args, httpSent, response, currency>>

(***************************************************************************)
(* The responses the formatter is applied to.                              *)
(***************************************************************************)
City(j) == "City" \o ToString(j)
Leg(j) == Obj([cityFrom |-> Str(City(j)), cityTo |-> Str(City(j + 1)),
               airline |-> Str("FR")])
RouteOfLen(n) == Arr([j \in 1..n |-> Leg(j)])

OfferKeys == {"price", "cityFrom", "cityTo", "flyFrom", "flyTo",
              "local_departure", "local_arrival", "duration", "airlines",
              "route", "bags_price", "deep_link"}

FullOffer ==
    [price |-> Num(120), cityFrom |-> Str("Rome"), cityTo |-> Str("Oslo"),
     flyFrom |-> Str("FCO"), flyTo |-> Str("OSL"),
     local_departure |-> Str("2024-03-05T14:30:00.000Z"),
     local_arrival |-> Str("2024-03-05T18:45:00+01:00"),
     duration |-> Obj([total |-> Num(125)]),
     airlines |-> Arr(<<Str("FR"), Str("SK")>>),
     route |-> RouteOfLen(2),
     bags_price |-> Obj([x \in {"1"} |-> Num(35)]),
     deep_link |-> Str("https://kiwi.example/book")]

\* the full offer without the fields of S
OfferWithout(S) == Obj([k \in OfferKeys \ S |-> FullOffer[k]])
\* the full offer with the given route value
OfferWithRoute(r) == Obj([FullOffer EXCEPT !["route"] = r])
\* every field present and of the wrong JSON type
MalformedOffer ==
    Obj([k \in OfferKeys |-> IF k \in {"price", "duration"} THEN Str("x") ELSE Num(7)])
OddOffer ==
    Obj([FullOffer EXCEPT !["local_departure"] = Str("tomorrow"),
                          !["duration"] = Obj([total |-> Num(-125)]),
                          !["airlines"] = Arr(<<Str("FR"), Num(1)>>),
                          !["bags_price"] = EmptyObj,
                          !["route"] = Arr(<<Leg(1), Num(3)>>)])

SingleOffers ==
    {OfferWithout(S) : S \in SUBSET OfferKeys}
      \cup {OfferWithRoute(RouteOfLen(n)) : n \in 0..MaxLegs}
      \cup {OfferWithRoute(Str("x")), MalformedOffer, OddOffer, Num(7)}

SmallOffers ==
    {OfferWithRoute(RouteOfLen(1)), OfferWithRoute(RouteOfLen(0)),
     OfferWithout({"price", "route", "bags_price"}), OfferWithRoute(RouteOfLen(2))}

RECURSIVE SeqsOfLen(_, _)
SeqsOfLen(S, n) ==
    IF n = 0 THEN {<<>>}
    ELSE {Append(s, x) : s \in SeqsOfLen(S, n - 1), x \in S}

FmtResponses ==
    {EmptyObj, Obj([data |-> Str("x")]), Str("x"), Obj([data |-> Arr(<<>>)])}
      \cup {Obj([data |-> Arr(<<o>>)]) : o \in SingleOffers}
      \cup UNION {{Obj([data |-> Arr(s)]) : s \in SeqsOfLen(SmallOffers, n)} :
                  n \in 2..MaxOffers}

InitFmt ==
    /\ apiKey = TRUE
    /\ overflowChecks \in BOOLEAN
    /\ pc = "format"
    /\ exitCode = -1
    /\ nread = 0 /\ line = Absent /\ stderrLog = <<>> /\ dispatched = <<>>
    /\ pending = Absent /\ buf = <<>> /\ out = <<>>
    /\ args = Absent /\ toolResult = NoResult /\ httpSent = <<>>
    /\ response \in FmtResponses
    /\ currency = "EUR"
    /\ i = 0 /\ stops = 0 /\ result = <<>>

NextFmt == FormatStart \/ FormatOffer

SpecFmt == InitFmt /\ [][NextFmt]_vars

(***************************************************************************)
(* PlanTripTool::execute                                                   *)
(***************************************************************************)
MissingParam(f) == "Missing or invalid " \o f \o " parameter"

\* the fly_to check reports the name of the field checked before it
ValidateArgs_WrongName(a) ==
    IF a = Absent THEN "Missing arguments"
    ELSE IF Get(a, "fly_from").t # "str" THEN MissingParam("fly_from")
    ELSE IF Get(a, "fly_to").t # "str" THEN MissingParam("fly_from")
    ELSE IF Get(a, "date_from").t # "str" THEN MissingParam("date_from")
    ELSE IF Get(a, "date_to").t # "str" THEN MissingParam("date_to")
    ELSE ""

\* the checks of the arguments, in the order of the code; "" when all pass
ValidateArgs(a) ==
    IF a = Absent THEN "Missing arguments"
    ELSE IF Get(a, "fly_from").t # "str" THEN MissingParam("fly_from")
    ELSE IF Get(a, "fly_to").t # "str" THEN MissingParam("fly_to")
    ELSE IF Get(a, "date_from").t # "str" THEN MissingParam("date_from")
    ELSE IF Get(a, "date_to").t # "str" THEN MissingParam("date_to")
    ELSE ""

\* return_from is appended whether or not the caller gave it
BuildQuery_AlwaysReturnFrom(a) ==
    << <<"fly_from", Get(a, "fly_from").s>>,
       <<"fly_to", Get(a, "fly_to").s>>,
       <<"date_from", Get(a, "date_from").s>>,
       <<"date_to", Get(a, "date_to").s>>,
       <<"adults", ToString(U64Or(Get(a, "adults"), 1))>>,
       <<"children", ToString(U64Or(Get(a, "children"), 0))>>,
       <<"infants", ToString(U64Or(Get(a, "infants"), 0))>>,
       <<"selected_cabins", StrOr(Get(a, "selected_cabins"), "M")>>,
       <<"curr", StrOr(Get(a, "curr"), "EUR")>>,
       <<"max_stopovers", ToString(U64Or(Get(a, "max_stopovers"), 2))>>,
       <<"sort", StrOr(Get(a, "sort"), "price")>>,
       <<"limit", ToString(U64Or(Get(a, "limit"), 5))>>,
       <<"return_from", StrOr(Get(a, "return_from"), "")>> >>
    \o (IF Get(a, "return_to").t = "str"
        THEN << <<"return_to", Get(a, "return_to").s>> >> ELSE <<>>)

\* the query parameters of the URL, in order, as <<name, value>> pairs
BuildQuery(a) ==
    << <<"fly_from", Get(a, "fly_from").s>>,
       <<"fly_to", Get(a, "fly_to").s>>,
       <<"date_from", Get(a, "date_from").s>>,
       <<"date_to", Get(a, "date_to").s>>,
       <<"adults", ToString(U64Or(Get(a, "adults"), 1))>>,
       <<"children", ToString(U64Or(Get(a, "children"), 0))>>,
       <<"infants", ToString(U64Or(Get(a, "infants"), 0))>>,
       <<"selected_cabins", StrOr(Get(a, "selected_cabins"), "M")>>,
       <<"curr", StrOr(Get(a, "curr"), "EUR")>>,
       <<"max_stopovers", ToString(U64Or(Get(a, "max_stopovers"), 2))>>,
       <<"sort", StrOr(Get(a, "sort"), "price")>>,
       <<"limit", ToString(U64Or(Get(a, "limit"), 5))>> >>
    \o (IF Get(a, "return_from").t = "str"
        THEN << <<"return_from", Get(a, "return_from").s>> >> ELSE <<>>)
    \o (IF Get(a, "return_to").t = "str"
        THEN << <<"return_to", Get(a, "return_to").s>> >> ELSE <<>>)

Request(a) ==
    [method |-> "GET",
     base |-> "https://api.tequila.kiwi.com/v2/search",
     query |-> BuildQuery(a),
     headers |-> << <<"apikey", "KIWI_API_KEY">>, <<"Accept", "application/json">> >>]

\* execute, from its entry to the point where the request is with the client
Execute ==
    /\ pc = "execute"
    /\ LET e == ValidateArgs(args) IN
       IF e # ""
       THEN /\ toolResult' = Err(e)
            /\ pc' = "toolReturn"
            /\ UNCHANGED <<httpSent, currency>>
       ELSE IF ~apiKey
       THEN /\ toolResult' = Err("KIWI_API_KEY not set in environment")
            /\ pc' = "toolReturn"
            /\ UNCHANGED <<httpSent, currency>>
       ELSE /\ httpSent' = Append(httpSent, Request(args))
            /\ currency' = StrOr(Get(args, "curr"), "EUR")
            /\ pc' = "http"
            /\ UNCHANGED toolResult
    /\ UNCHANGED <<envVars, mainVars, args, response, i, stops, result>>

\* what the API answers with, when it answers with JSON
HttpBodies ==
    {EmptyObj, Obj([data |-> Arr(<<>>)]),
     Obj([data |-> Arr(<<OfferWithRoute(RouteOfLen(1))>>)]),
     Obj([data |-> Arr(<<OfferWithRoute(RouteOfLen(0))>>)])}

\* the awaits on http_client.send and response.json
HttpRespond ==
    /\ pc = "http"
    /\ \/ /\ toolResult' = Err("error sending request")
          /\ pc' = "toolReturn"
          /\ UNCHANGED response
       \/ /\ toolResult' = Err("Failed to parse API response: invalid JSON")
          /\ pc' = "toolReturn"
          /\ UNCHANGED response
       \/ \E body \in HttpBodies :
             /\ response' = body
             /\ pc' = "format"
             /\ UNCHANGED toolResult
    /\ UNCHANGED <<envVars, mainVars, args, httpSent, currency, i, stops, result>>

(***************************************************************************)
(* The arguments execute is called with.                                   *)
(***************************************************************************)
Mandatory == <<"fly_from", "fly_to", "date_from", "date_to">>
MandatoryKeys == {Mandatory[k] : k \in 1..Len(Mandatory)}
Defaulted == {"adults", "children", "infants", "selected_cabins", "curr",
              "max_stopovers", "sort", "limit"}
Conditional == {"return_from", "return_to"}
OptionalKeys == Defaulted \cup Conditional
IntegerKeys == {"adults", "children", "infants", "max_stopovers", "limit"}

FullArgs ==
    [fly_from |-> Str("FCO"), fly_to |-> Str("OSL"),
     date_from |-> Str("01/03/2024"), date_to |-> Str("05/03/2024"),
     return_from |-> Str("10/03/2024"), return_to |-> Str("12/03/2024"),
     adults |-> Num(2), children |-> Num(1), infants |-> Num(1),
     selected_cabins |-> Str("C"), curr |-> Str("USD"),
     max_stopovers |-> Num(0), sort |-> Str("duration"), limit |-> Num(3)]

\* a value of the wrong JSON type for the field
WrongType(k) == IF k \in IntegerKeys THEN Str("two") ELSE Num(9)

ExecArgs ==
    {Absent, Str("x"), Null}
      \cup {Obj([k \in MandatoryKeys \ S |->
                    IF k \in W THEN WrongType(k) ELSE FullArgs[k]]) :
              S \in SUBSET MandatoryKeys, W \in SUBSET MandatoryKeys}
      \cup {Obj([k \in MandatoryKeys \cup S |-> FullArgs[k]]) :
              S \in SUBSET OptionalKeys}
      \cup {Obj([FullArgs EXCEPT ![k] = WrongType(k)]) : k \in OptionalKeys}
      \cup {Obj([FullArgs EXCEPT !["adults"] = Num(-1)])}

InitExec ==
    /\ apiKey \in BOOLEAN
    /\ overflowChecks \in BOOLEAN
    /\ pc = "execute"
    /\ exitCode = -1
    /\ nread = 0 /\ line = Absent /\ stderrLog = <<>> /\ dispatched = <<>>
    /\ pending = Absent /\ buf = <<>> /\ out = <<>>
    /\ args \in ExecArgs
    /\ toolResult = NoResult /\ httpSent = <<>>
    /\ response = Absent /\ currency = ""
    /\ i = 0 /\ stops = 0 /\ result = <<>>

NextExec == Execute \/ HttpRespond \/ FormatStart \/ FormatOffer

SpecExec == InitExec /\ [][NextExec]_vars

(***************************************************************************)
(* main: startup and the read / dispatch / write loop                      *)
(***************************************************************************)
\* an input line: not a JSON-RPC request, or a request by method
Malformed == [valid |-> FALSE, method |-> "", arguments |-> Absent]
RpcRequest(m, a) == [valid |-> TRUE, method |-> m, arguments |-> a]

LoopArgs ==
    {Absent,
     Obj([k \in MandatoryKeys |-> FullArgs[k]]),
     Obj([k \in MandatoryKeys \ {"fly_to"} |-> FullArgs[k]])}

Lines ==
    {Malformed, RpcRequest("notifications/initialized", Absent),
     RpcRequest("tools/list", Absent)}
      \cup {RpcRequest("tools/call", a) : a \in LoopArgs}

ErrLine(n, m) == [line |-> n, msg |-> m]
Reply(n, k) == [line |-> n, kind |-> k]

\* the key is reported missing and the process carries on
Startup_NoExit ==
    /\ pc = "start"
    /\ IF ~apiKey
       THEN stderrLog' = Append(stderrLog,
                ErrLine(0, "KIWI_API_KEY environment variable is required"))
       ELSE UNCHANGED stderrLog
    /\ pc' = "read"
    /\ UNCHANGED <<envVars, exitCode, nread, line, dispatched, pending, buf,
                   out, execVars, fmtVars>>

\* the check of KIWI_API_KEY before the server state is built
Startup ==
    /\ pc = "start"
    /\ IF ~apiKey
       THEN /\ stderrLog' = Append(stderrLog,
                   ErrLine(0, "KIWI_API_KEY environment variable is required"))
            /\ exitCode' = 1
            /\ pc' = "exited"
       ELSE /\ pc' = "read"
            /\ UNCHANGED <<stderrLog, exitCode>>
    /\ UNCHANGED <<envVars, nread, line, dispatched, pending, buf, out,
                   execVars, fmtVars>>

\* stdin.next_line().await?
ReadLine ==
    /\ pc = "read"
    /\ \/ /\ nread < MaxLines
          /\ \E l \in Lines : line' = l
          /\ nread' = nread + 1
          /\ pc' = "parse"
          /\ UNCHANGED exitCode
       \/ \* end of input: the loop ends and main returns Ok(())
          /\ pc' = "done"
          /\ exitCode' = 0
          /\ UNCHANGED <<nread, line>>
       \/ \* the read fails: main returns the error
          /\ pc' = "failed"
          /\ exitCode' = 1
          /\ UNCHANGED <<nread, line>>
    /\ UNCHANGED <<envVars, stderrLog, dispatched, pending, buf, out,
                   execVars, fmtVars>>

\* a line that does not parse ends main with the parse error
ParseLine_Fatal ==
    /\ pc = "parse"
    /\ IF ~line.valid
       THEN /\ stderrLog' = Append(stderrLog, ErrLine(nread, "Error parsing request"))
            /\ pc' = "failed"
            /\ exitCode' = 1
       ELSE /\ pc' = "dispatch"
            /\ UNCHANGED <<stderrLog, exitCode>>
    /\ UNCHANGED <<envVars, nread, line, dispatched, pending, buf, out,
                   execVars, fmtVars>>

\* serde_json::from_str(&line)
ParseLine ==
    /\ pc = "parse"
    /\ IF ~line.valid
       THEN /\ stderrLog' = Append(stderrLog, ErrLine(nread, "Error parsing request"))
            /\ pc' = "read"
       ELSE /\ pc' = "dispatch"
            /\ UNCHANGED stderrLog
    /\ UNCHANGED <<envVars, exitCode, nread, line, dispatched, pending, buf,
                   out, execVars, fmtVars>>

\* state.process_request(request): the dispatcher takes the request and
\* answers nothing (a notification), answers itself, or calls the tool
Dispatch ==
    /\ pc = "dispatch"
    /\ dispatched' = Append(dispatched, [line |-> nread, method |-> line.method])
    /\ IF line.method = "tools/call"
       THEN /\ args' = line.arguments
            /\ toolResult' = NoResult
            /\ pc' = "execute"
            /\ UNCHANGED pending
       ELSE IF line.method = "tools/list"
       THEN /\ pending' = Reply(nread, "result")
            /\ pc' = "write"
            /\ UNCHANGED <<args, toolResult>>
       ELSE /\ pc' = "read"
            /\ UNCHANGED <<pending, args, toolResult>>
    /\ UNCHANGED <<envVars, exitCode, nread, line, stderrLog, buf, out,
                   httpSent, fmtVars>>

\* the tool has returned to the dispatcher, and process_request returns.
\* What the dispatcher makes of a tool's Err is decided outside this
\* repository: it answers with an error response, or returns the Err, which
\* the `?` of main propagates.
ToolReturn ==
    /\ pc = "toolReturn"
    /\ \/ /\ toolResult.ok
          /\ pending' = Reply(nread, "result")
          /\ pc' = "write"
          /\ UNCHANGED exitCode
       \/ /\ ~toolResult.ok
          /\ pending' = Reply(nread, "error")
          /\ pc' = "write"
          /\ UNCHANGED exitCode
       \/ /\ ~toolResult.ok
          /\ pc' = "failed"
          /\ exitCode' = 1
          /\ UNCHANGED pending
    /\ args' = Absent /\ toolResult' = NoResult
    /\ response' = Absent /\ currency' = "" /\ i' = 0 /\ stops' = 0 /\ result' = <<>>
    /\ UNCHANGED <<envVars, nread, line, stderrLog, dispatched, buf, out, httpSent>>

\* stdout.write_all(response_json.as_bytes()).await?
WriteResponse ==
    /\ pc = "write"
    /\ buf' = Append(buf, [line |-> pending.line, kind |-> pending.kind, nl |-> FALSE])
    /\ pc' = "newline"
    /\ UNCHANGED <<envVars, exitCode, nread, line, stderrLog, dispatched,
                   pending, out, execVars, fmtVars>>

\* stdout.write_all(b"\n").await?
WriteNewline ==
    /\ pc = "newline"
    /\ buf' = [buf EXCEPT ![Len(buf)].nl = TRUE]
    /\ pc' = "flush"
    /\ UNCHANGED <<envVars, exitCode, nread, line, stderrLog, dispatched,
                   pending, out, execVars, fmtVars>>

\* the response is left unflushed when the loop goes on to the next line
Flush_Skipped ==
    /\ pc = "flush"
    /\ pending' = Absent
    /\ pc' = "read"
    /\ UNCHANGED <<envVars, exitCode, nread, line, stderrLog, dispatched, buf,
                   out, execVars, fmtVars>>

\* stdout.flush().await?, and the end of the loop body
Flush ==
    /\ pc = "flush"
    /\ out' = out \o [k \in 1..Len(buf) |-> Reply(buf[k].line, buf[k].kind)]
    /\ buf' = <<>>
    /\ pending' = Absent
    /\ pc' = "read"
    /\ UNCHANGED <<envVars, exitCode, nread, line, stderrLog, dispatched,
                   execVars, fmtVars>>

\* one of the three stdout calls fails: main returns the error
StdoutError ==
    /\ pc \in {"write", "newline", "flush"}
    /\ pc' = "failed"
    /\ exitCode' = 1
    /\ UNCHANGED <<envVars, nread, line, stderrLog, dispatched, pending, buf,
                   out, execVars, fmtVars>>

Init ==
    /\ apiKey \in BOOLEAN
    /\ overflowChecks \in BOOLEAN
    /\ pc = "start"
    /\ exitCode = -1
    /\ nread = 0 /\ line = Absent /\ stderrLog = <<>> /\ dispatched = <<>>
    /\ pending = Absent /\ buf = <<>> /\ out = <<>>
    /\ args = Absent /\ toolResult = NoResult /\ httpSent = <<>>
    /\ response = Absent /\ currency = ""
    /\ i = 0 /\ stops = 0 /\ result = <<>>

Next ==
    \/ Startup
    \/ ReadLine
    \/ ParseLine
    \/ Dispatch
    \/ Execute
    \/ HttpRespond
    \/ FormatStart
    \/ FormatOffer
    \/ ToolReturn
    \/ WriteResponse
    \/ WriteNewline
    \/ Flush
    \/ StdoutError

Spec == Init /\ [][Next]_vars

(***************************************************************************)
(* Properties of execute (checked under SpecExec)                          *)
(***************************************************************************)
NotString(a, f) == Get(a, f).t # "str"
QueryOf(req) == {req.query[k] : k \in 1..Len(req.query)}
QueryNames(req) == {q[1] : q \in QueryOf(req)}
Supplied(a, f) == a.t = "obj" /\ f \in DOMAIN a.o

\* C1 as stated, for the calls that carry an arguments object: whenever a
\* mandatory field is absent or not a string, the call fails with the error
\* that names that very field, whatever the other arguments are, and no HTTP
\* request is sent.
C1_EachMissingFieldNamed ==
    (pc # "execute" /\ args.t = "obj") =>
        \A k \in 1..Len(Mandatory) :
            NotString(args, Mandatory[k]) =>
                /\ toolResult = Err(MissingParam(Mandatory[k]))
                /\ httpSent = <<>>

FirstMissing(a) ==
    CHOOSE k \in 1..Len(Mandatory) :
        /\ NotString(a, Mandatory[k])
        /\ \A j \in 1..(k - 1) : ~NotString(a, Mandatory[j])

\* C1 (amended): when a mandatory field is absent or not a string the call
\* fails and no HTTP request is sent; the error names the first such field
\* in the order fly_from, fly_to, date_from, date_to, and is "Missing
\* arguments" when the call carries no arguments value at all.
C1_FirstMissingFieldNamed ==
    (pc # "execute" /\ \E k \in 1..Len(Mandatory) : NotString(args, Mandatory[k])) =>
        /\ httpSent = <<>>
        /\ ~toolResult.ok
        /\ toolResult.err =
              IF args = Absent THEN "Missing arguments"
              ELSE "Missing or invalid " \o Mandatory[FirstMissing(args)] \o " parameter"

\* fly_to alone is missing, and the call has failed naming it
C1_Witness ==
    /\ pc = "toolReturn"
    /\ Supplied(args, "fly_from") /\ ~NotString(args, "fly_from")
    /\ ~Supplied(args, "fly_to")
    /\ toolResult = Err("Missing or invalid fly_to parameter")
    /\ httpSent = <<>>

\* C9 as stated: the request carries the four mandatory parameters always
\* and each of the ten optional parameters only when the caller supplied it.
C9_OptionalOnlyWhenSupplied ==
    httpSent # <<>> =>
        /\ httpSent[1].method = "GET"
        /\ MandatoryKeys \subseteq QueryNames(httpSent[1])
        /\ \A f \in OptionalKeys :
              f \in QueryNames(httpSent[1]) <=> Supplied(args, f)

DefaultOf ==
    [adults |-> "1", children |-> "0", infants |-> "0", selected_cabins |-> "M",
     curr |-> "EUR", max_stopovers |-> "2", sort |-> "price", limit |-> "5"]

\* the caller supplied the field with the type the field takes
Typed(a, f) ==
    LET v == Get(a, f) IN
    IF f \in IntegerKeys THEN v.t = "num" /\ v.n >= 0 ELSE v.t = "str"
\* the text of the caller's value
CallerValue(a, f) ==
    LET v == Get(a, f) IN IF v.t = "num" THEN ToString(v.n) ELSE v.s

\* C9 (amended): the GET request carries exactly one parameter for each of
\* the four mandatory fields and for each of adults, children, infants,
\* selected_cabins, curr, max_stopovers, sort and limit always (the caller's
\* value when supplied with the field's type, else the default 1, 0, 0, M,
\* EUR, 2, price, 5), and a parameter for return_from and return_to only
\* when the caller supplied that field as a string.
C9_DefaultsAlwaysSent ==
    httpSent # <<>> =>
        LET req == httpSent[1] IN
        /\ req.method = "GET"
        /\ Cardinality(QueryOf(req)) = Len(req.query)
        /\ Cardinality(QueryNames(req)) = Len(req.query)
        /\ QueryNames(req) \subseteq MandatoryKeys \cup OptionalKeys
        /\ \A f \in MandatoryKeys : <<f, Get(args, f).s>> \in QueryOf(req)
        /\ \A f \in Defaulted :
              <<f, IF Typed(args, f) THEN CallerValue(args, f)
                   ELSE DefaultOf[f]>> \in QueryOf(req)
        /\ \A f \in Conditional :
              IF Get(args, f).t = "str"
              THEN <<f, Get(args, f).s>> \in QueryOf(req)
              ELSE f \notin QueryNames(req)

\* a request was sent for a call that supplied return_from and neither
\* return_to nor adults
C9_Witness ==
    /\ httpSent # <<>>
    /\ Supplied(args, "return_from")
    /\ ~Supplied(args, "return_to")
    /\ ~Supplied(args, "adults")
    /\ <<"adults", "1">> \in QueryOf(httpSent[1])

(***************************************************************************)
(* Properties of the main loop (checked under Spec)                        *)
(***************************************************************************)
\* C3: at most one request is in flight.  A line is read only when no
\* response is pending and nothing is written and unflushed; what reaches
\* standard output is one line at a time, for the line read last, which has
\* no output line yet and comes after every line that has one.
C3_OneRequestInFlight ==
    [][ /\ nread' # nread =>
              /\ nread' = nread + 1
              /\ pending = Absent
              /\ buf = <<>>
        /\ (buf' # buf /\ buf' # <<>>) =>
              /\ Len(buf') = 1
              /\ buf'[1].line = nread
        /\ out' # out =>
              /\ Len(out') = Len(out) + 1
              /\ SubSeq(out', 1, Len(out)) = out
              /\ out'[Len(out')].line = nread
              /\ buf' = <<>>
              /\ \A k \in 1..Len(out) : out[k].line < nread
      ]_vars

\* a further line is being read after two lines were answered, in order
C3_Witness ==
    /\ pc = "parse"
    /\ Len(out) = 2
    /\ out[1].line < out[2].line
    /\ out[2].line < nread

\* C4: a line that is not a JSON-RPC request is skipped.  The step that
\* finds it hands nothing to the dispatcher, writes nothing to standard
\* output and leaves the process running at the read of the next line; and
\* only valid lines ever reach the dispatcher.
C4_MalformedLineSkipped ==
    [][ /\ (pc = "parse" /\ ~line.valid) =>
              /\ pc' = "read"
              /\ exitCode' = -1
              /\ dispatched' = dispatched
              /\ <<pending', buf', out'>> = <<pending, buf, out>>
              /\ nread' = nread
        /\ dispatched' # dispatched => line.valid
      ]_vars

\* a line was skipped, and a later line was dispatched and answered
C4_Witness ==
    /\ stderrLog # <<>>
    /\ stderrLog[1].msg = "Error parsing request"
    /\ dispatched # <<>>
    /\ dispatched[Len(dispatched)].line > stderrLog[1].line
    /\ out # <<>>
    /\ out[Len(out)].line > stderrLog[1].line

\* C5: without KIWI_API_KEY the process reads no line, dispatches nothing,
\* sends and writes nothing, and where it has ended its status is 1.
C5_NoKeyNoService ==
    ~apiKey =>
        /\ pc \in {"start", "exited"}
        /\ nread = 0
        /\ dispatched = <<>>
        /\ httpSent = <<>>
        /\ pending = Absent /\ buf = <<>> /\ out = <<>>
        /\ pc = "exited" => (exitCode = 1 /\ stderrLog # <<>>)

\* the process has exited for want of the key
C5_Witness == ~apiKey /\ pc = "exited" /\ exitCode # 0

(***************************************************************************)
(* Properties of format_flight_results (checked under SpecFmt)             *)
(***************************************************************************)
Offers == Get(response, "data").a
LegCount(flight) ==
    LET r == Get(flight, "route") IN IF r.t = "arr" THEN Len(r.a) ELSE 0
ExpectedStops(flight) == IF LegCount(flight) >= 1 THEN LegCount(flight) - 1 ELSE 0
Described(n) ==
    CASE n = 0 -> "Direct flight"
      [] n = 1 -> "1 stopover"
      [] OTHER -> ToString(n) \o " stopovers"
\* the lines an iteration has appended
Appended == SubSeq(result', Len(result) + 1, Len(result'))

\* C6: for every offer the formatter processes, the stopover count is the
\* number of legs less one for a route of at least one leg and 0 for an
\* absent or empty route, never negative, and the block's stopover line
\* renders that count.
C6_StopoverCount ==
    [][ pc = "formatLoop" =>
            /\ pc' # "panicked"
            /\ stops' >= 0
            /\ stops' = ExpectedStops(Offers[i])
            /\ Appended[7] = "Stops: " \o Described(ExpectedStops(Offers[i]))
      ]_vars

TextField(flight, f, placeholder) ==
    IF Supplied(flight, f) /\ flight.o[f].t = "str" THEN flight.o[f].s ELSE placeholder
NumField(v, f) ==
    IF Supplied(v, f) /\ v.o[f].t = "num" THEN v.o[f].n ELSE 0

ExpectedRouteLine(flight, k) ==
    "Flight " \o ToString(k) \o ": " \o TextField(flight, "cityFrom", "Unknown")
      \o " (" \o TextField(flight, "flyFrom", "???") \o ") -> "
      \o TextField(flight, "cityTo", "Unknown")
      \o " (" \o TextField(flight, "flyTo", "???") \o ")"

RECURSIVE IsSubsequence(_, _)
IsSubsequence(ls, text) ==
    IF ls = <<>> THEN TRUE
    ELSE IF text = <<>> THEN FALSE
    ELSE IF ls[1] = text[1] THEN IsSubsequence(Tail(ls), Tail(text))
    ELSE IsSubsequence(ls, Tail(text))

\* C7: format_flight_results never aborts and never returns an error; its
\* text is the fixed diagnostic when "data" is no array, the fixed "No
\* flights found" line when the array is empty, and else the header with
\* the offer count followed by the offers' blocks in array order.
C7_FormatterNeverFails ==
    /\ pc # "panicked"
    /\ pc = "toolReturn" =>
          /\ toolResult.ok
          /\ LET data == Get(response, "data")
                 text == toolResult.text
             IN  IF data.t # "arr"
                 THEN text = <<"Unable to retrieve flight information. The API response was in an unexpected format.">>
                 ELSE IF data.a = <<>>
                 THEN text = <<"No flights found matching your criteria.">>
                 ELSE /\ text[1] = "Found " \o ToString(Len(data.a))
                                     \o " flights matching your criteria:"
                      /\ IsSubsequence([k \in 1..Len(data.a) |->
                                           ExpectedRouteLine(data.a[k], k)],
                                       Tail(text))

\* the time as the formatter shows it: re-rendered when it parses
ExpectedTime(flight, f) ==
    LET s == TextField(flight, f, "Unknown") IN
    IF s \in DOMAIN Rfc3339 THEN Rfc3339[s] ELSE s

ExpectedAirlines(flight) ==
    IF Supplied(flight, "airlines") /\ flight.o["airlines"].t = "arr"
    THEN Join(FilterStr(flight.o["airlines"].a), ", ")
    ELSE "Unknown"

ExpectedBaggage(flight, cur) ==
    IF Supplied(flight, "bags_price")
    THEN "First checked bag: " \o ToString(NumField(flight.o["bags_price"], "1"))
           \o ".00 " \o cur
    ELSE "Baggage information not available"

ExpectedMinutes(flight) ==
    IF Supplied(flight, "duration") THEN NumField(flight.o["duration"], "total") ELSE 0

\* C8: for every offer, whichever of its fields are missing, the formatter
\* emits the nine lines of its block in the order route, price, departure,
\* arrival, duration, airlines, stopovers, baggage, booking link, each
\* missing field replaced by its placeholder.
C8_CompleteBlock ==
    [][ pc = "formatLoop" =>
            /\ pc' # "panicked"
            /\ Len(Appended) >= 9
            /\ LET flight == Offers[i]
                   m == ExpectedMinutes(flight)
               IN  SubSeq(Appended, 1, 9) =
                     << ExpectedRouteLine(flight, i),
                        "Price: " \o ToString(NumField(flight, "price")) \o ".00 " \o currency,
                        "Departure: " \o ExpectedTime(flight, "local_departure"),
                        "Arrival: " \o ExpectedTime(flight, "local_arrival"),
                        "Duration: " \o ToString(TruncDiv(m, 60)) \o "h "
                           \o ToString(TruncRem(m, 60)) \o "m",
                        "Airline(s): " \o ExpectedAirlines(flight),
                        "Stops: " \o Described(stops'),
                        ExpectedBaggage(flight, currency),
                        "Booking link: "
                           \o TextField(flight, "deep_link", "Booking link not available") >>
      ]_vars

ExpectedLegLine(leg, j) ==
    "  Leg " \o ToString(j) \o ": " \o TextField(leg, "cityFrom", "Unknown")
      \o " -> " \o TextField(leg, "cityTo", "Unknown")
      \o " (" \o TextField(leg, "airline", "Unknown") \o ")"

\* C10: the "Route details" sub-list is appended to an offer's block exactly
\* when its stopover count is greater than 0, and then holds one line per
\* leg, in route order, numbered from 1, so stopover count plus one leg
\* lines; an offer with a single leg or no route gets no sub-list.
C10_RouteDetails ==
    [][ (pc = "formatLoop" /\ pc' # "panicked") =>
            LET flight == Offers[i]
                n == LegCount(flight)
                rule == IF i < Len(Offers) THEN 3 ELSE 0
                details == SubSeq(Appended, 10, Len(Appended) - rule)
            IN  /\ (stops' > 0) <=> (details # <<>>)
                /\ n <= 1 => details = <<>>
                /\ details # <<>> =>
                      /\ details[1] = "Route details:"
                      /\ Len(details) - 1 = n
                      /\ Len(details) - 1 = stops' + 1
                      /\ \A j \in 1..n :
                            details[j + 1] =
                               ExpectedLegLine(Get(flight, "route").a[j], j)
      ]_vars

====
